---- MODULE Spec2Model ----
(***************************************************************************)
(* Session state machine, turn scheduler and vote aggregator of the        *)
(* impostor party-game bot (src/main.py).                                  *)
(*                                                                         *)
(* Execution model.  Updates (commands, text messages, button callbacks)   *)
(* are processed one at a time by the application (the builder at          *)
(* src/main.py:1017 leaves concurrent updates off), so at most one handler *)
(* coroutine is in flight: the frame h.  Timers are asyncio tasks created  *)
(* with asyncio.create_task (src/main.py:462, 548); they interleave with   *)
(* the handler and with each other at every await.  A step of the model is *)
(* the code a coroutine runs between two suspensions.  An await with no    *)
(* access to shared state before it (or after it) is merged into the       *)
(* neighbouring step.                                                      *)
(*                                                                         *)
(* Game dictionaries are heap objects: a coroutine that holds the local    *)
(* `game` across an await keeps the object even after the registry entry   *)
(* was deleted or replaced.  sessions[sid] is the heap, games the registry *)
(* (chat id -> object, in insertion order).                                *)
(***************************************************************************)
EXTENDS Integers, Sequences, FiniteSets, TLC

\* ---------------------------------------------------------------- bounds
NumUsers == 3
NumChats == 1
MaxSessions == 2
MaxTasks == 3
MaxRounds == 1
MaxVoteOps == 3

\* ------------------------------------------------------ program constants
MinPlayers == 3
MaxWords == 4
None == 0

Users == 1..NumUsers
Chats == 1..NumChats
SessionIds == 1..(MaxSessions + 1)
TaskIds == 1..MaxTasks
GameIds == {1000}

\* Who the messaging platform reports as administrator of a chat, and the
\* configured bot owners (BOT_OWNERS).
Admins == {1}
BOT_OWNERS == {2}

\* Vote targets a callback can carry: a user and an identity that is no user.
Targets == {1, NumUsers + 1}

RoundsChoices == 1..MaxRounds
\* DEFAULTS["turn_length"], DEFAULTS["vote_length"]
DefaultTurnLength == 40
DefaultVoteLength == 60
PlayersChoices == {NumUsers - 1, NumUsers}

\* Text messages: sequences of characters, "w" a letter and " " a blank.
Texts ==
  { <<>>,
    <<"w">>,
    <<" ", "w", " ", " ", "w", " ">>,
    <<"w", " ", "w", " ", "w", " ", "w">>,
    <<"w", " ", "w", " ", "w", " ", "w", " ", "w">> }

\* The runs explored: up to MaxSessions sessions created one after the other
\* with no ballot button pressed, or one session with up to MaxVoteOps
\* presses of ballot buttons, or one session with one press on a ballot
\* kept from before.  old_ballots: the users still hold ballot messages,
\* buttons included, of a session that ended before the run.
Profiles ==
  { [sessions |-> MaxSessions, presses |-> 0, old_ballots |-> FALSE],
    [sessions |-> 1, presses |-> MaxVoteOps, old_ballots |-> FALSE],
    [sessions |-> 1, presses |-> 1, old_ballots |-> TRUE] }

VARIABLES games, sessions, tasks, h, settings, nextSid, voteOps, limits

vars == <<games, sessions, tasks, h, settings, nextSid, voteOps, limits>>

\* ------------------------------------------------------------- data model
NoSession == [state |-> "none"]
NoTask == [kind |-> "none"]
Idle == [op |-> "idle", pc |-> "idle", chat |-> None, user |-> None,
         game |-> None, cur |-> None, res |-> "none"]

\* len(text.strip().split()): the number of maximal runs of non-blanks.
RECURSIVE word_count_from(_, _, _)
word_count_from(text, i, inWord) ==
  IF i > Len(text) THEN 0
  ELSE IF text[i] = " " THEN word_count_from(text, i + 1, FALSE)
  ELSE (IF inWord THEN 0 ELSE 1) + word_count_from(text, i + 1, TRUE)

word_count(text) == word_count_from(text, 1, FALSE)

\* dict helpers (a dict is a function on its key set)
DictGet(d, k) == IF k \in DOMAIN d THEN d[k] ELSE None

DictPut(d, k, v) == [x \in (DOMAIN d) \cup {k} |-> IF x = k THEN v ELSE d[x]]

DictSetDefaultAll(d, ks) == [x \in (DOMAIN d) \cup ks |-> IF x \in DOMAIN d THEN d[x] ELSE None]

EmptyDict == [x \in {} |-> None]

SeqSet(s) == {s[i] : i \in 1..Len(s)}

IndexOf(s, x) == CHOOSE i \in 1..Len(s) : s[i] = x

\* random.shuffle: any permutation of the list
Shuffles(s) ==
  { p \in [1..Len(s) -> SeqSet(s)] : \A i, j \in 1..Len(s) : i # j => p[i] # p[j] }

\* registry: games is a sequence of [chat, g] in insertion order
InGames(gs, c) == \E i \in 1..Len(gs) : gs[i].chat = c

GamesGet(gs, c) ==
  IF InGames(gs, c) THEN gs[CHOOSE i \in 1..Len(gs) : gs[i].chat = c].g ELSE None

GamesDel(gs, c) == SelectSeq(gs, LAMBDA e : e.chat # c)

GamesPut(gs, c, sid) ==
  IF InGames(gs, c)
  THEN [i \in 1..Len(gs) |-> IF gs[i].chat = c THEN [chat |-> c, g |-> sid] ELSE gs[i]]
  ELSE Append(gs, [chat |-> c, g |-> sid])

\* the dictionary game_cmd stores
NewGame(gid, creator) ==
  [game_id |-> gid, creator |-> creator, players |-> <<>>, state |-> "waiting",
   turn_order |-> <<>>, current_turn |-> 0, current_round |-> 1,
   turn_task |-> None, impostor |-> None,
   vote_selections |-> EmptyDict, votes |-> EmptyDict, done_votes |-> {},
   settings_at_start |-> [set |-> FALSE],
   tallies |-> 0]

\* get_chat_member(...).status in ["administrator", "creator"]
IsAdmin(c, u) == u \in Admins

is_admin_or_owner(c, u) == u \in BOT_OWNERS \/ IsAdmin(c, u)

\* ------------------------------------------------------------ world record
\* The synchronous part of a coroutine is computed on a record
\* w = [games, sessions, tasks]; a call returns [w, pc, game, cur, res]:
\* the new world and where the calling coroutine is suspended next
\* (pc = "done": it returned).
World == [games |-> games, sessions |-> sessions, tasks |-> tasks]

Ret(w, pc, game, cur, res) == [w |-> w, pc |-> pc, game |-> game, cur |-> cur, res |-> res]

Done(w) == Ret(w, "done", None, None, "none")

\* task.cancel() on another task that is suspended (in its sleep or in an
\* outbound call): CancelledError ends it at that await; no handler of the
\* task touches shared state on the way out.  References to the ended task
\* are cleared: cancel() on a finished task does nothing.
EndTask(w, t) ==
  IF t = None THEN w
  ELSE [w EXCEPT
         !.tasks = [w.tasks EXCEPT ![t] = NoTask],
         !.sessions = [sid \in SessionIds |->
            IF w.sessions[sid] # NoSession /\ w.sessions[sid].turn_task = t
            THEN [w.sessions[sid] EXCEPT !.turn_task = None]
            ELSE w.sessions[sid]]]

FreeTask(w) == CHOOSE t \in TaskIds : w.tasks[t] = NoTask /\ \A u \in TaskIds : w.tasks[u] = NoTask => t <= u

HasFreeTask(w) == \E t \in TaskIds : w.tasks[t] = NoTask

\* asyncio.create_task(turn_timeout(context, chat_id, current_player, turn_len)).
\* gsid, gidx and valid are not program state: the game object whose turn was
\* being dispatched, the index of current_player in its turn order, and (set
\* when the sleep ends) whether the registry then held a PLAYING session
\* whose turn-taker and turn index were those of the timer.
NewTurnTask(c, u, secs, sid, idx) ==
  [kind |-> "turn", chat |-> c, user |-> u, secs |-> secs, pc |-> "sleep", game |-> None,
   cur |-> None, res |-> "none", gsid |-> sid, gidx |-> idx, valid |-> FALSE]

\* asyncio.create_task(vote_timer(context, chat_id, vote_len))
NewVoteTask(c, secs, sid) ==
  [kind |-> "vote", chat |-> c, user |-> None, secs |-> secs, pc |-> "sleep", game |-> None,
   cur |-> None, res |-> "none", gsid |-> sid, gidx |-> 0, valid |-> FALSE]

\* ------------------------------------------------------------ turn system
\* start_voting up to its first await (the "Voting time!" message)
start_voting(w, c) ==
  LET g == GamesGet(w.games, c) IN
  IF g = None THEN Done(w)
  ELSE Ret([w EXCEPT !.sessions[g].state = "voting"], "voting_send", g, None, "none")

\* start_voting after the await: ballots defaulted, vote timer created
\* (no handle is kept, nothing is cancelled)
start_voting_resume(w, c, g) ==
  LET s == w.sessions[g]
      ks == SeqSet(s.players)
      s1 == [s EXCEPT !.vote_selections = DictSetDefaultAll(s.vote_selections, ks),
                      !.votes = DictSetDefaultAll(s.votes, ks)]
      t == FreeTask(w)
  IN IF ~s.settings_at_start.set
     THEN Done([w EXCEPT !.sessions[g] = s1])   \* None.get raises at 547
     ELSE Done([w EXCEPT !.sessions[g] = s1,
                         !.tasks[t] = NewVoteTask(c, s.settings_at_start.vote_length, g)])

\* start_turn with the round limit read from the chat's current settings
start_turn_live(w, c) ==
  LET g == GamesGet(w.games, c) IN
  IF g = None \/ w.sessions[g].state # "playing" THEN Done(w)
  ELSE LET s == w.sessions[g] IN
    IF s.current_round > settings[c].rounds THEN start_voting(w, c)
    ELSE Ret(w, "turn_send", g, s.turn_order[s.current_turn + 1], "none")

\* start_turn that opens voting as soon as the round counter reaches the limit
start_turn_early(w, c) ==
  LET g == GamesGet(w.games, c) IN
  IF g = None \/ w.sessions[g].state # "playing" THEN Done(w)
  ELSE LET s == w.sessions[g] IN
    IF ~s.settings_at_start.set THEN Done(w)
    ELSE IF s.current_round >= s.settings_at_start.rounds THEN start_voting(w, c)
    ELSE Ret(w, "turn_send", g, s.turn_order[s.current_turn + 1], "none")

\* start_turn up to its first await
start_turn(w, c) ==
  LET g == GamesGet(w.games, c) IN
  IF g = None \/ w.sessions[g].state # "playing" THEN Done(w)
  ELSE LET s == w.sessions[g] IN
    IF ~s.settings_at_start.set
    THEN Done(w)   \* settings is None: settings.get raises, the coroutine ends
    ELSE IF s.current_round > s.settings_at_start.rounds THEN start_voting(w, c)
    ELSE IF s.turn_order = <<>>
    THEN \* a PLAYING session has the >= 3 players it started with: the
         \* branch is never taken, its notice and delete are one step here
         Done([w EXCEPT !.games = GamesDel(w.games, c)])
    ELSE Ret(w, "turn_send", g, s.turn_order[s.current_turn + 1], "none")

\* start_turn after the turn announcement: cancel the stored timer, arm a
\* new one for current_player (both local values taken before the await)
start_turn_resume(w, c, g, cur) ==
  LET w1 == EndTask(w, w.sessions[g].turn_task)
      t == FreeTask(w1)
      s == w1.sessions[g]
  IN Done([w1 EXCEPT !.tasks[t] = NewTurnTask(c, cur, s.settings_at_start.turn_length,
                                              g, IndexOf(s.turn_order, cur) - 1),
                     !.sessions[g].turn_task = t])

\* the pointer arithmetic of advance_turn
NextTurn(s) ==
  IF s.current_turn + 1 >= Len(s.turn_order)
  THEN [s EXCEPT !.current_turn = 0, !.current_round = s.current_round + 1]
  ELSE [s EXCEPT !.current_turn = s.current_turn + 1]

\* advance_turn, called by coroutine `self` (a task id, None for the
\* handler).  game["turn_task"].cancel() on the running task itself only
\* requests cancellation: CancelledError is raised at the task's next
\* suspension, which is the first await of start_turn / start_voting, so
\* the task ends there (pc "done") with the synchronous changes made.
advance_turn(w, c, self) ==
  LET g == GamesGet(w.games, c) IN
  IF g = None THEN Done(w)
  ELSE
    LET tt == w.sessions[g].turn_task
        w1 == [w EXCEPT !.sessions[g] = NextTurn(w.sessions[g])]
        w2 == IF tt # None /\ tt # self THEN EndTask(w1, tt) ELSE w1
        w3 == [w2 EXCEPT !.sessions[g].turn_task = None]
        r == start_turn(w3, c)
    IN IF tt # None /\ tt = self THEN Done(r.w) ELSE r

\* ------------------------------------------------------------ vote tally
VoteTargets(votes) == {votes[v] : v \in DOMAIN votes} \ {None}

VoteCount(votes, t) == Cardinality({v \in DOMAIN votes : votes[v] = t})

MaxCount(votes) ==
  CHOOSE m \in 0..Cardinality(DOMAIN votes) :
    /\ \E t \in VoteTargets(votes) : VoteCount(votes, t) = m
    /\ \A t \in VoteTargets(votes) : VoteCount(votes, t) <= m

\* A variant of the outcome test that wants the impostor strictly ahead of
\* every other target (a tie at the maximum saves the impostor): C12 fails
\* of it.
Outcome_no_ties(s) ==
  IF s.impostor = None THEN "ended"
  ELSE IF /\ VoteTargets(s.votes) # {}
          /\ s.impostor \in VoteTargets(s.votes)
          /\ \A t \in VoteTargets(s.votes) \ {s.impostor} :
               VoteCount(s.votes, t) < VoteCount(s.votes, s.impostor)
       THEN "ejected"
       ELSE "survives"

Outcome(s) ==
  IF s.impostor = None THEN "ended"
  ELSE IF /\ VoteTargets(s.votes) # {}
          /\ s.impostor \in VoteTargets(s.votes)
          /\ MaxCount(s.votes) = VoteCount(s.votes, s.impostor)
       THEN "ejected"
       ELSE "survives"

\* finalize_votes up to its first await (the tally edit): the VOTING check
\* and the count; the state is left "voting".  What the rest of the
\* function reads of the local `game` (the impostor, for the outcome) is
\* fixed since the game began, so the outcome is carried instead.
finalize_votes(w, c) ==
  LET g == GamesGet(w.games, c) IN
  IF g = None \/ w.sessions[g].state # "voting" THEN Done(w)
  ELSE Ret([w EXCEPT !.sessions[g].tallies = w.sessions[g].tallies + 1],
           "fin_edit", None, None, Outcome(w.sessions[g]))

\* A variant of the end of finalize_votes that keeps the tallied session for
\* a rematch, back in "waiting", where the code removes it: C8 fails of it.
finalize_votes_rematch(w, c) ==
  LET g == GamesGet(w.games, c) IN
  IF g = None THEN Done(w)
  ELSE Done([w EXCEPT !.sessions[g].state = "waiting"])

\* finalize_votes after the outcome announcement
finalize_votes_resume(w, c) == Done([w EXCEPT !.games = GamesDel(w.games, c)])

\* --------------------------------------------------------------- commit
Referenced(sid, gs, ts, hh) ==
  \/ \E i \in 1..Len(gs) : gs[i].g = sid
  \/ hh.game = sid
  \/ \E t \in TaskIds : ts[t] # NoTask /\ ts[t].game = sid

\* The new shared state.  Game objects nothing refers to any more are
\* dropped from the heap.
Commit(w, hh) ==
  /\ games' = w.games
  /\ tasks' = w.tasks
  /\ h' = hh
  /\ sessions' = [sid \in SessionIds |->
        IF Referenced(sid, w.games, w.tasks, hh) THEN w.sessions[sid] ELSE NoSession]

\* a new handler coroutine ran to its first suspension (or returned)
BeginHandler(op, c, u, r) ==
  Commit(r.w, IF r.pc = "done" THEN Idle
              ELSE [op |-> op, pc |-> r.pc, chat |-> c, user |-> u,
                    game |-> r.game, cur |-> r.cur, res |-> r.res])

\* the suspended handler ran to its next suspension (or returned)
StepHandler(r) ==
  Commit(r.w, IF r.pc = "done" THEN Idle
              ELSE [h EXCEPT !.pc = r.pc, !.game = r.game, !.cur = r.cur, !.res = r.res])

\* task t ran to its next suspension (or returned)
StepTask(t, r) ==
  Commit(IF r.pc = "done" THEN EndTask(r.w, t)
         ELSE [r.w EXCEPT !.tasks[t] = [@ EXCEPT !.pc = r.pc, !.game = r.game,
                                                  !.cur = r.cur, !.res = r.res]],
         h)

Same == UNCHANGED <<settings, nextSid, voteOps, limits>>

\* --------------------------------------------------------------- commands
\* /game
\* /game without the "A game already exists" return
game_allowed_again(c, u) == IsAdmin(c, u) \/ u \in BOT_OWNERS

\* the guards of /game: privileged sender, no session in the chat
game_allowed(c, u) ==
  /\ IsAdmin(c, u) \/ u \in BOT_OWNERS
  /\ ~InGames(games, c)

game_cmd(c, u, gid) ==
  /\ h = Idle
  /\ game_allowed(c, u)
  /\ nextSid <= limits.sessions
  /\ Commit([World EXCEPT !.games = GamesPut(games, c, nextSid),
                          !.sessions[nextSid] = NewGame(gid, u)], Idle)
  /\ nextSid' = nextSid + 1
  /\ UNCHANGED <<settings, voteOps, limits>>

\* the first registry entry whose game_id is gid (handle_join's loop)
FirstWithId(gs, ss, gid) ==
  IF \E i \in 1..Len(gs) : ss[gs[i].g].game_id = gid
  THEN LET i == CHOOSE i \in 1..Len(gs) :
                  /\ ss[gs[i].g].game_id = gid
                  /\ \A j \in 1..(i - 1) : ss[gs[j].g].game_id # gid
       IN gs[i]
  ELSE [chat |-> None, g |-> None]

\* Bound on the inputs: the users follow the join link in the order of their
\* ids (the turn order is shuffled at the start whatever the join order was).
JoinsInOrder(u, players) == \A v \in Users : v < u => v \in SeqSet(players)

\* A variant of the checks of handle_join that admits a join at capacity
\* (<= for <): C11 fails of it.
join_allowed_at_capacity(s, st, u) ==
  /\ s.state = "waiting"
  /\ Len(s.players) <= st.max_players
  /\ u \notin SeqSet(s.players)

\* the checks of handle_join on the game it found: WAITING, below the stored
\* max_players, not joined yet
join_allowed(s, st, u) ==
  /\ s.state = "waiting"
  /\ Len(s.players) < st.max_players
  /\ u \notin SeqSet(s.players)

\* /start join_<gid> in private chat
handle_join(u, gid) ==
  /\ h = Idle
  /\ LET e == FirstWithId(games, sessions, gid) IN
     /\ e.g # None
     /\ join_allowed(sessions[e.g], settings[e.chat], u)
     /\ JoinsInOrder(u, sessions[e.g].players)
     /\ Commit([World EXCEPT !.sessions[e.g].players = Append(@, u)], Idle)
     /\ Same

\* get_settings: a fresh dictionary of the chat's four values (set marks it
\* as a dictionary, where game_cmd stored None)
get_settings(c) ==
  [set |-> TRUE, rounds |-> settings[c].rounds, max_players |-> settings[c].max_players,
   turn_length |-> settings[c].turn_length, vote_length |-> settings[c].vote_length]

\* /start in the group, up to the "Game started!" reply (or the
\* "Cannot start game" reply when the word lookup raised)
start_cmd_begin(w, c, order, imp, wordOk) ==
  LET g == GamesGet(w.games, c)
      s == w.sessions[g]
      s1 == [s EXCEPT !.state = "playing", !.turn_order = order, !.impostor = imp]
      ks == SeqSet(s.players)
      s2 == [s1 EXCEPT !.vote_selections = DictSetDefaultAll(s.vote_selections, ks),
                       !.votes = DictSetDefaultAll(s.votes, ks),
                       !.settings_at_start = get_settings(c)]
  IN IF wordOk THEN Ret([w EXCEPT !.sessions[g] = s2], "reply", None, None, "none")
     ELSE Ret([w EXCEPT !.sessions[g] = s1], "fail_reply", None, None, "none")

\* the guard of /start: session present, WAITING, at least 3 players
start_cmd_allowed(c, u) ==
  /\ InGames(games, c)
  /\ sessions[GamesGet(games, c)].state = "waiting"
  /\ Len(sessions[GamesGet(games, c)].players) >= MinPlayers

start_cmd(c, u) ==
  /\ h = Idle
  /\ start_cmd_allowed(c, u)
  /\ \E order \in Shuffles(sessions[GamesGet(games, c)].players),
        wordOk \in BOOLEAN :
       \E imp \in SeqSet(order) :
         BeginHandler("start_cmd", c, u, start_cmd_begin(World, c, order, imp, wordOk))
  /\ Same

\* start_cmd after "Game started!": start_turn
start_cmd_resume ==
  /\ h.op = "start_cmd" /\ h.pc = "reply"
  /\ StepHandler(start_turn(World, h.chat))
  /\ Same

\* start_cmd after "Cannot start game": del games[chat.id]
start_cmd_fail_resume ==
  /\ h.op = "start_cmd" /\ h.pc = "fail_reply"
  /\ StepHandler(Done([World EXCEPT !.games = GamesDel(games, h.chat)]))
  /\ Same

\* a text message in the group, up to the "Word received" reply
\* the checks of turn_message_handler without the word count
turn_message_accepts_any_length(c, u, text) ==
  /\ InGames(games, c)
  /\ sessions[GamesGet(games, c)].state = "playing"
  /\ sessions[GamesGet(games, c)].turn_order[sessions[GamesGet(games, c)].current_turn + 1] = u
  /\ text # <<>>

turn_message_accepts(c, u, text) ==
  /\ InGames(games, c)
  /\ sessions[GamesGet(games, c)].state = "playing"
  /\ sessions[GamesGet(games, c)].turn_order[sessions[GamesGet(games, c)].current_turn + 1] = u
  /\ text # <<>>
  /\ word_count(text) <= MaxWords

turn_message_handler(c, u, text) ==
  /\ h = Idle
  /\ turn_message_accepts(c, u, text)
  /\ LET g == GamesGet(games, c)
         w1 == EndTask(World, sessions[g].turn_task)
     IN BeginHandler("turn_message_handler", c, u, Ret(w1, "reply", None, None, "none"))
  /\ Same

\* a message of the turn-taker with more than 4 words: the message is
\* deleted (failure ignored) and "Send 4 words or less." is sent
turn_message_too_long(c, u, text) ==
  /\ InGames(games, c)
  /\ sessions[GamesGet(games, c)].state = "playing"
  /\ sessions[GamesGet(games, c)].turn_order[sessions[GamesGet(games, c)].current_turn + 1] = u
  /\ text # <<>>
  /\ word_count(text) > MaxWords

turn_message_long(c, u, text) ==
  /\ h = Idle
  /\ turn_message_too_long(c, u, text)
  /\ BeginHandler("turn_message_handler", c, u, Ret(World, "long_send", None, None, "none"))
  /\ Same

\* turn_message_handler after "Send 4 words or less.": return
turn_message_long_resume ==
  /\ h.op = "turn_message_handler" /\ h.pc = "long_send"
  /\ StepHandler(Done(World))
  /\ Same

\* turn_message_handler after "Word received": advance_turn
turn_message_resume ==
  /\ h.op = "turn_message_handler" /\ h.pc = "reply"
  /\ StepHandler(advance_turn(World, h.chat, None))
  /\ Same

\* the first registry entry one of whose players is u (handle_vote_callback)
FirstWithPlayer(gs, ss, u) ==
  IF \E i \in 1..Len(gs) : u \in SeqSet(ss[gs[i].g].players)
  THEN LET i == CHOOSE i \in 1..Len(gs) :
                  /\ u \in SeqSet(ss[gs[i].g].players)
                  /\ \A j \in 1..(i - 1) : u \notin SeqSet(ss[gs[j].g].players)
       IN gs[i]
  ELSE [chat |-> None, g |-> None]

\* The buttons that carry the vote callbacks are on the ballot message that
\* handle_vote / send_vote_ui sends, and it is sent only to a player of a
\* session that is VOTING (src/main.py:557).  The callback data names no
\* game, so the buttons of a ballot outlive its session.  The presses
\* covered here are those made while a session of the voter is VOTING, and
\* those on a ballot kept from an earlier session.
BallotOpen(voter) ==
  \/ limits.old_ballots
  \/ \E i \in 1..Len(games) :
       /\ sessions[games[i].g].state = "voting"
       /\ voter \in SeqSet(sessions[games[i].g].players)

\* callback vote_select_<target>_<voter> pressed by from_user
vote_select(from_user, voter, target) ==
  /\ h = Idle
  /\ LET e == FirstWithPlayer(games, sessions, voter) IN
     /\ from_user = voter /\ e.g # None
     /\ BallotOpen(voter)
     /\ voteOps < limits.presses
     /\ Commit([World EXCEPT !.sessions[e.g].vote_selections = DictPut(@, voter, target)], Idle)
     /\ voteOps' = voteOps + 1
     /\ UNCHANGED <<settings, nextSid, limits>>

\* callback vote_done_<voter> pressed by from_user, up to the
\* "Vote submitted" edit
vote_done(from_user, voter) ==
  /\ h = Idle
  /\ LET e == FirstWithPlayer(games, sessions, voter) IN
     /\ from_user = voter /\ e.g # None
     /\ BallotOpen(voter)
     /\ voteOps < limits.presses
     /\ LET s == sessions[e.g]
            s1 == [s EXCEPT !.votes = DictPut(s.votes, voter, DictGet(s.vote_selections, voter)),
                            !.done_votes = s.done_votes \cup {voter}]
        IN BeginHandler("vote_done", e.chat, voter,
                        Ret([World EXCEPT !.sessions[e.g] = s1], "done_edit", e.g, None, "none"))
     /\ voteOps' = voteOps + 1
     /\ UNCHANGED <<settings, nextSid, limits>>

\* vote_done after the edit: everyone done -> finalize_votes
vote_done_resume ==
  /\ h.op = "vote_done" /\ h.pc = "done_edit"
  /\ StepHandler(IF SeqSet(sessions[h.game].players) \subseteq sessions[h.game].done_votes
                 THEN finalize_votes(World, h.chat)
                 ELSE Done(World))
  /\ Same

\* /end by anybody
end_allowed_anyone(c, u) == InGames(games, c)

\* the guard of /end: a session in the chat, created by the sender
end_allowed(c, u) ==
  /\ InGames(games, c)
  /\ sessions[GamesGet(games, c)].creator = u

\* /end
end_cmd(c, u) ==
  /\ h = Idle
  /\ end_allowed(c, u)
  /\ Commit([World EXCEPT !.games = GamesDel(games, c)], Idle)
  /\ Same

\* /kill
kill_cmd(c, u) ==
  /\ h = Idle
  /\ IsAdmin(c, u)
  /\ InGames(games, c)
  /\ Commit([World EXCEPT !.games = GamesDel(games, c)], Idle)
  /\ Same

\* Edits are explored while the stored settings can still be read by a
\* session: one is WAITING in the chat, or one can still be created.
SettingsStillRead(c) ==
  \/ nextSid <= limits.sessions
  \/ InGames(games, c) /\ sessions[GamesGet(games, c)].state = "waiting"

\* callbacks customise_turn_<n>, customise_vote_<n>, customise_rounds_<n>,
\* customise_players_<n>: the privilege check, then set_setting
customise_callback(c, u, key, n) ==
  /\ h = Idle
  /\ is_admin_or_owner(c, u)
  /\ settings' = [settings EXCEPT ![c][key] = n]
  /\ UNCHANGED <<games, sessions, tasks, h, nextSid, voteOps, limits>>

\* the edits that some later read of the settings can still see
set_setting(c, u, key, n) ==
  /\ SettingsStillRead(c)
  /\ customise_callback(c, u, key, n)

\* -------------------------------------------- continuations of the handler
handler_turn_send ==
  /\ h.pc = "turn_send" /\ HasFreeTask(World)
  /\ StepHandler(start_turn_resume(World, h.chat, h.game, h.cur))
  /\ Same

handler_voting_send ==
  /\ h.pc = "voting_send" /\ HasFreeTask(World)
  /\ StepHandler(start_voting_resume(World, h.chat, h.game))
  /\ Same

handler_fin_edit ==
  /\ h.pc = "fin_edit"
  /\ StepHandler(Ret(World, "fin_send", None, None, h.res))
  /\ Same

handler_fin_send ==
  /\ h.pc = "fin_send"
  /\ StepHandler(finalize_votes_resume(World, h.chat))
  /\ Same

\* ------------------------------------------------------------------ timers
\* turn_timeout after its sleep.  TurnValid is what the timer's tag (turn-taker
\* and turn index) says of the registry; turn_timeout_check is what the code
\* tests: the turn-taker alone.
TurnValid(t) ==
  LET g == GamesGet(games, tasks[t].chat) IN
  /\ g # None
  /\ sessions[g].state = "playing"
  /\ sessions[g].current_turn = tasks[t].gidx
  /\ sessions[g].turn_order[sessions[g].current_turn + 1] = tasks[t].user

turn_timeout_check(w, t) ==
  LET g == GamesGet(w.games, w.tasks[t].chat) IN
  IF g = None \/ w.sessions[g].state # "playing" THEN Done(w)
  ELSE IF w.sessions[g].turn_order[w.sessions[g].current_turn + 1] = w.tasks[t].user
       THEN Ret(w, "skip_send", None, None, "none")
       ELSE Done(w)

turn_timeout(t) ==
  /\ tasks[t] # NoTask /\ tasks[t].kind = "turn" /\ tasks[t].pc = "sleep"
  /\ StepTask(t, turn_timeout_check([World EXCEPT !.tasks[t].valid = TurnValid(t)], t))
  /\ Same

\* turn_timeout after the skip notice: advance_turn
turn_timeout_skip ==
  \E t \in TaskIds :
    /\ tasks[t] # NoTask /\ tasks[t].pc = "skip_send"
    /\ StepTask(t, advance_turn(World, tasks[t].chat, t))
    /\ Same

\* vote_timer after its sleep: finalize_votes
vote_timer(t) ==
  /\ tasks[t] # NoTask /\ tasks[t].kind = "vote" /\ tasks[t].pc = "sleep"
  /\ StepTask(t, finalize_votes(World, tasks[t].chat))
  /\ Same

task_turn_send ==
  \E t \in TaskIds :
    /\ tasks[t] # NoTask /\ tasks[t].pc = "turn_send" /\ HasFreeTask(World)
    /\ StepTask(t, start_turn_resume(World, tasks[t].chat, tasks[t].game, tasks[t].cur))
    /\ Same

task_voting_send ==
  \E t \in TaskIds :
    /\ tasks[t] # NoTask /\ tasks[t].pc = "voting_send" /\ HasFreeTask(World)
    /\ StepTask(t, start_voting_resume(World, tasks[t].chat, tasks[t].game))
    /\ Same

task_fin_edit ==
  \E t \in TaskIds :
    /\ tasks[t] # NoTask /\ tasks[t].pc = "fin_edit"
    /\ StepTask(t, Ret(World, "fin_send", None, None, tasks[t].res))
    /\ Same

task_fin_send ==
  \E t \in TaskIds :
    /\ tasks[t] # NoTask /\ tasks[t].pc = "fin_send"
    /\ StepTask(t, finalize_votes_resume(World, tasks[t].chat))
    /\ Same

\* ---------------------------------------------------------- specification
Init ==
  /\ games = <<>>
  /\ sessions = [sid \in SessionIds |-> NoSession]
  /\ tasks = [t \in TaskIds |-> NoTask]
  /\ h = Idle
  /\ settings \in [Chats -> [rounds : RoundsChoices, max_players : PlayersChoices,
                              turn_length : {DefaultTurnLength},
                              vote_length : {DefaultVoteLength}]]
  /\ nextSid = 1
  /\ voteOps = 0
  /\ limits \in Profiles

Next ==
  \/ \E c \in Chats, u \in Users, gid \in GameIds : game_cmd(c, u, gid)
  \/ \E u \in Users, gid \in GameIds : handle_join(u, gid)
  \/ \E c \in Chats, u \in Users : start_cmd(c, u)
  \/ start_cmd_resume
  \/ start_cmd_fail_resume
  \/ \E c \in Chats, u \in Users, text \in Texts : turn_message_handler(c, u, text)
  \/ turn_message_resume
  \/ \E fu \in Users, v \in Users, tg \in Targets : vote_select(fu, v, tg)
  \/ \E fu \in Users, v \in Users : vote_done(fu, v)
  \/ vote_done_resume
  \/ \E c \in Chats, u \in Users : end_cmd(c, u)
  \/ \E c \in Chats, u \in Users : kill_cmd(c, u)
  \/ \E c \in Chats, u \in Users, n \in RoundsChoices : set_setting(c, u, "rounds", n)
  \/ \E c \in Chats, u \in Users, n \in PlayersChoices : set_setting(c, u, "max_players", n)
  \/ handler_turn_send
  \/ handler_voting_send
  \/ handler_fin_edit
  \/ handler_fin_send
  \/ \E t \in TaskIds : turn_timeout(t)
  \/ turn_timeout_skip
  \/ \E t \in TaskIds : vote_timer(t)
  \/ task_turn_send
  \/ task_voting_send
  \/ task_fin_edit
  \/ task_fin_send

Spec == Init /\ [][Next]_vars

\* ------------------------------------------------------------------ claims
\* A coroutine is in flight for chat c: the handler is suspended in a call
\* for c, or a timer of c has ended its sleep and not yet returned.
InFlight(c) ==
  \/ h # Idle /\ h.chat = c
  \/ \E t \in TaskIds : tasks[t] # NoTask /\ tasks[t].chat = c /\ tasks[t].pc # "sleep"

\* the sessions the registry holds
Registered == {games[i].g : i \in 1..Len(games)}

\* C1: a session is never tallied twice: of the last participant's
\* finalize and the vote-timer expiry only one computes the tally.
C1_TalliedAtMostOnce ==
  \A sid \in SessionIds : sessions[sid] # NoSession => sessions[sid].tallies <= 1

\* the turn pointer of a session
Pointer(s) == <<s.current_round, s.current_turn>>

\* a step moved the turn pointer of PLAYING session sid
Advanced(sid) ==
  /\ sessions[sid] # NoSession /\ sessions'[sid] # NoSession
  /\ sessions[sid].state = "playing"
  /\ Pointer(sessions'[sid]) # Pointer(sessions[sid])

\* the handler of an accepted move resumed after its reply
MoveAdvances(sid) ==
  /\ h' # h /\ h.op = "turn_message_handler" /\ h.pc = "reply"
  /\ GamesGet(games, h.chat) = sid

\* a timer step (the handler stands still) in which every timer that left
\* its skip notice was a timer of the session's current turn
ExpiryAdvances(sid) ==
  /\ h' = h
  /\ \A t \in TaskIds :
       (tasks[t] # NoTask /\ tasks[t].pc = "skip_send" /\ tasks'[t] # tasks[t])
         => /\ tasks[t].gidx = sessions[sid].current_turn
            /\ tasks[t].user = sessions[sid].turn_order[sessions[sid].current_turn + 1]

\* C2: the turn pointer moves only by one step at a time, and each step is
\* made by the accepted move or by the timer of the turn it leaves: a move
\* and a timer firing for the same turn never advance it twice.
C2_OneAdvancePerTurn ==
  [][\A sid \in SessionIds :
       Advanced(sid) =>
         /\ Pointer(sessions'[sid]) = Pointer(NextTurn(sessions[sid]))
         /\ MoveAdvances(sid) \/ ExpiryAdvances(sid)]_vars

\* C3: for every group key at most one timer (turn or vote) is outstanding:
\* started, its sleep neither over nor cancelled.
C3_OneTimerPerChat ==
  \A c \in Chats :
    Cardinality({t \in TaskIds : tasks[t] # NoTask /\ tasks[t].chat = c
                                   /\ tasks[t].pc = "sleep"}) <= 1

\* C4: a turn timer announces a skip (and goes on to advance) only when, at
\* its expiry, the session is present and PLAYING and its current turn-taker
\* and turn index are those the timer was started for.
C4_SkipOnlyForCurrentTurn ==
  \A t \in TaskIds :
    (tasks[t] # NoTask /\ tasks[t].pc = "skip_send") => tasks[t].valid

\* timer t was started for a session that has left the registry
Stale(t) == tasks[t].gsid \notin Registered

\* C5: a timer started for a terminated session changes no session: a step
\* in which only such timers ran leaves the registry and every game object
\* as they were.
C5_TerminatedTimersAreInert ==
  [][(/\ h' = h
      /\ \E t \in TaskIds : tasks[t] # NoTask /\ tasks'[t] # tasks[t]
      /\ \A t \in TaskIds : (tasks[t] # NoTask /\ tasks'[t] # tasks[t]) => Stale(t))
       => /\ games' = games
          /\ \A sid \in SessionIds : sessions'[sid] \in {sessions[sid], NoSession}]_vars

\* C6: every dispatched turn of a PLAYING session has an armed turn timer,
\* also a turn reached through a timer-driven skip: once nothing is in
\* flight for the chat, the session's timer is sleeping.
C6_TurnHasArmedTimer ==
  \A sid \in Registered :
    (sessions[sid].state = "playing" /\ ~InFlight(CHOOSE c \in Chats : GamesGet(games, c) = sid))
      => /\ sessions[sid].turn_task # None
         /\ tasks[sessions[sid].turn_task].pc = "sleep"

\* C7: every session that entered VOTING has a vote timer that will tally
\* it, whether VOTING was entered after a move or after a turn-timer expiry.
C7_VotingHasVoteTimer ==
  \A sid \in Registered :
    (sessions[sid].state = "voting" /\ ~InFlight(CHOOSE c \in Chats : GamesGet(games, c) = sid))
      => \E t \in TaskIds : tasks[t] # NoTask /\ tasks[t].kind = "vote" /\ tasks[t].gsid = sid

\* the phase of session number sid: sessions are numbered in creation order
\* and one that left the registry never returns to it
SessPhase(sid) ==
  IF sid >= nextSid THEN "uncreated"
  ELSE IF sid \in Registered THEN sessions[sid].state
  ELSE "terminated"

PhaseRank(p) ==
  CASE p = "uncreated" -> 0
    [] p = "waiting" -> 1
    [] p = "playing" -> 2
    [] p = "voting" -> 3
    [] p = "terminated" -> 4

\* C8: the state of a session only moves forward along
\* WAITING -> PLAYING -> VOTING -> TERMINATED: a step leaves the phase as it
\* is, moves it to the next one, or terminates the session.
C8_StateMonotone ==
  [][\A sid \in SessionIds :
       \/ PhaseRank(SessPhase(sid))' = PhaseRank(SessPhase(sid))
       \/ PhaseRank(SessPhase(sid))' = PhaseRank(SessPhase(sid)) + 1
       \/ PhaseRank(SessPhase(sid))' = 4 /\ PhaseRank(SessPhase(sid)) > 0]_vars

\* C8 (case reached): a session that ran its round schedule is VOTING, has
\* been tallied, and the coroutine that tallied it is about to remove it.
C8_FullScheduleReached ==
  \E sid \in Registered :
    /\ sessions[sid].state = "voting" /\ sessions[sid].tallies = 1
    /\ sessions[sid].current_round > sessions[sid].settings_at_start.rounds
    /\ h.op = "vote_done" /\ h.pc = "fin_send"

\* C9: a session begins only with 3 <= participants <= max_players, the
\* limit read at the begin.
C9_BeginWithinPlayerLimits ==
  \A sid \in SessionIds :
    (sessions[sid] # NoSession /\ sessions[sid].settings_at_start.set)
      => /\ Len(sessions[sid].players) >= MinPlayers
         /\ Len(sessions[sid].players) <= sessions[sid].settings_at_start.max_players

\* C10: a begin takes effect only when a privileged actor issued it.
C10_BeginOnlyByPrivileged ==
  h.op = "start_cmd" => is_admin_or_owner(h.chat, h.user)

\* the chat under which the registry holds session sid
ChatOf(sid) == CHOOSE c \in Chats : GamesGet(games, c) = sid

\* C11: the participants of a session change only by a join that appends the
\* actor, and only when the session is WAITING, the actor has not joined yet
\* and the participant count is below max_players; in every other case the
\* participants are unchanged.
C11_JoinAddsIffAllowed ==
  [][\A sid \in SessionIds :
       (/\ sessions[sid] # NoSession /\ sessions'[sid] # NoSession
        /\ sessions'[sid].players # sessions[sid].players)
         => /\ sid \in Registered
            /\ sessions[sid].state = "waiting"
            /\ Len(sessions[sid].players) < settings[ChatOf(sid)].max_players
            /\ \E u \in Users :
                 /\ u \notin SeqSet(sessions[sid].players)
                 /\ sessions'[sid].players = Append(sessions[sid].players, u)]_vars

\* C11 (case reached): joins filled a WAITING session up to max_players, so
\* the next join is one that fails.
C11_JoinedToCapacity ==
  \E sid \in Registered :
    /\ sessions[sid].state = "waiting"
    /\ Len(sessions[sid].players) = settings[ChatOf(sid)].max_players
    /\ Len(sessions[sid].players) < NumUsers

\* ------------------------------------------------- the tally on any ballots
\* A VOTING session of all users whose vote record is any assignment of a
\* target (a participant, an identity that is no participant, or unset) to
\* every participant, its vote timer asleep; the timer then tallies it.
AllPlayers == [i \in 1..NumUsers |-> i]

VotingGame(votes, imp) ==
  [NewGame(1000, 1) EXCEPT
     !.players = AllPlayers, !.state = "voting", !.turn_order = AllPlayers,
     !.current_round = MaxRounds + 1, !.impostor = imp,
     !.vote_selections = votes, !.votes = votes,
     !.done_votes = {v \in Users : votes[v] # None},
     !.settings_at_start = [set |-> TRUE, rounds |-> MaxRounds, max_players |-> NumUsers,
                            turn_length |-> DefaultTurnLength,
                            vote_length |-> DefaultVoteLength]]

TallyInit ==
  /\ games = <<[chat |-> 1, g |-> 1]>>
  /\ \E votes \in [Users -> {None} \cup 1..(NumUsers + 1)], imp \in Users :
       sessions = [sid \in SessionIds |-> IF sid = 1 THEN VotingGame(votes, imp) ELSE NoSession]
  /\ tasks = [t \in TaskIds |-> IF t = 1 THEN NewVoteTask(1, DefaultVoteLength, 1) ELSE NoTask]
  /\ h = Idle
  /\ settings = [c \in Chats |-> [rounds |-> MaxRounds, max_players |-> NumUsers,
                                  turn_length |-> DefaultTurnLength,
                                  vote_length |-> DefaultVoteLength]]
  /\ nextSid = 2
  /\ voteOps = 0
  /\ limits = [sessions |-> 1, presses |-> 0, old_ballots |-> FALSE]

TallyNext ==
  \/ \E t \in TaskIds : vote_timer(t)
  \/ task_fin_edit
  \/ task_fin_send

TallySpec == TallyInit /\ [][TallyNext]_vars

\* the number of recorded votes that name x
Naming(votes, x) == Cardinality({v \in DOMAIN votes : votes[v] = x})

\* the claim's outcome rule: some vote is not unset, and no target is named
\* by more votes than the impostor
ImpostorEjected(votes, imp) ==
  /\ \E v \in DOMAIN votes : votes[v] # None
  /\ \A x \in 1..(NumUsers + 1) : Naming(votes, x) <= Naming(votes, imp)

\* C12: the announced outcome is "impostor ejected" if and only if at least
\* one non-unset vote is recorded and the votes naming the impostor equal the
\* maximum count over all targets (ties included); otherwise "survives".
C12_OutcomeRule ==
  \A t \in TaskIds :
    (tasks[t] # NoTask /\ tasks[t].pc \in {"fin_edit", "fin_send"} /\ 1 \in Registered)
      => /\ tasks[t].res \in {"ejected", "survives"}
         /\ tasks[t].res = "ejected"
              <=> ImpostorEjected(sessions[1].votes, sessions[1].impostor)

\* C12 (case reached): the impostor is ejected on a tie at the maximum.
C12_EjectedOnTie ==
  \E t \in TaskIds :
    /\ tasks[t] # NoTask /\ tasks[t].pc = "fin_edit" /\ tasks[t].res = "ejected"
    /\ 1 \in Registered
    /\ \E x \in Users \ {sessions[1].impostor} :
         Naming(sessions[1].votes, x) = Naming(sessions[1].votes, sessions[1].impostor)

\* C13: finalizing is idempotent per voter: once a voter is in the
\* finalized set, that voter's entry in the vote record never changes again.
C13_FinalizedVoteIsFixed ==
  [][\A sid \in SessionIds :
       (sessions[sid] # NoSession /\ sessions'[sid] # NoSession)
         => \A v \in sessions[sid].done_votes :
              DictGet(sessions'[sid].votes, v) = DictGet(sessions[sid].votes, v)]_vars

\* the ballot state of a session
Ballots(s) == <<s.vote_selections, s.votes, s.done_votes>>

\* C14: a select or a done changes the tentative selections, the vote record
\* or the finalized set of a session only while that session is VOTING and
\* the voter is one of its participants.
C14_BallotsChangeOnlyInVoting ==
  [][voteOps' # voteOps =>
       \A sid \in SessionIds :
         (/\ sessions[sid] # NoSession /\ sessions'[sid] # NoSession
          /\ Ballots(sessions'[sid]) # Ballots(sessions[sid]))
           => /\ sessions[sid].state = "voting"
              /\ h'.op = "vote_done" => h'.user \in SeqSet(sessions[sid].players)]_vars

\* every participant of s has finalized
AllFinalized(s) == SeqSet(s.players) \subseteq s.done_votes

\* C15: early exit: once a finalize has made the finalized voters the full
\* participant set of a VOTING session, the session is tallied and removed
\* by that finalize, not by the vote timer: an expiring vote timer never
\* finds such a session to tally.
C15_EarlyExitBypassesTimer ==
  [][\A t \in TaskIds :
       (/\ tasks[t] # NoTask /\ tasks[t].kind = "vote" /\ tasks[t].pc = "sleep"
        /\ tasks'[t] # tasks[t])
         => LET g == GamesGet(games, tasks[t].chat) IN
            (g # None /\ sessions[g].state = "voting" /\ AllFinalized(sessions[g]))
              => sessions'[g].tallies = sessions[g].tallies]_vars

\* --------------------------------------------------- failing outbound calls
\* An outbound call (reply_text, send_message) raises.  The awaits at
\* src/main.py:358, 366, 447, 525, 538 and 623 in a handler, and 447, 474,
\* 538 and 623 in a timer task, are in no try block: the exception ends the
\* coroutine there (the application logs it and goes on with the next
\* update).  The edits at 612 and 693 are wrapped in try/except and go on
\* either way: handler_fin_edit, task_fin_edit and vote_done_resume are
\* both outcomes.
handler_send_fails ==
  /\ h.pc \in {"reply", "fail_reply", "turn_send", "voting_send", "fin_send"}
  /\ StepHandler(Done(World))
  /\ Same

task_send_fails ==
  \E t \in TaskIds :
    /\ tasks[t] # NoTask /\ tasks[t].pc \in {"skip_send", "turn_send", "voting_send", "fin_send"}
    /\ StepTask(t, Done(World))
    /\ Same

\* the program of Spec in which any outbound call may also fail
FailInit ==
  /\ games = <<>>
  /\ sessions = [sid \in SessionIds |-> NoSession]
  /\ tasks = [t \in TaskIds |-> NoTask]
  /\ h = Idle
  /\ settings \in [Chats -> [rounds : RoundsChoices, max_players : PlayersChoices,
                              turn_length : {DefaultTurnLength},
                              vote_length : {DefaultVoteLength}]]
  /\ nextSid = 1
  /\ voteOps = 0
  /\ limits \in Profiles

\* A session left PLAYING without its snapshot (the "Cannot start game" reply
\* raised before `del games[chat.id]`) accepts turn messages for ever, each
\* one advancing current_round: the runs stop feeding it past the cap.
RoundBelowCap(c) ==
  InGames(games, c) => sessions[GamesGet(games, c)].current_round <= MaxRounds + 1

FailNext ==
  \/ \E c \in Chats, u \in Users, gid \in GameIds : game_cmd(c, u, gid)
  \/ \E u \in Users, gid \in GameIds : handle_join(u, gid)
  \/ \E c \in Chats, u \in Users : start_cmd(c, u)
  \/ start_cmd_resume
  \/ start_cmd_fail_resume
  \/ \E c \in Chats, u \in Users, text \in Texts :
       RoundBelowCap(c) /\ turn_message_handler(c, u, text)
  \/ turn_message_resume
  \/ \E fu \in Users, v \in Users, tg \in Targets : vote_select(fu, v, tg)
  \/ \E fu \in Users, v \in Users : vote_done(fu, v)
  \/ vote_done_resume
  \/ \E c \in Chats, u \in Users : end_cmd(c, u)
  \/ \E c \in Chats, u \in Users : kill_cmd(c, u)
  \/ \E c \in Chats, u \in Users, n \in RoundsChoices : set_setting(c, u, "rounds", n)
  \/ \E c \in Chats, u \in Users, n \in PlayersChoices : set_setting(c, u, "max_players", n)
  \/ handler_turn_send
  \/ handler_voting_send
  \/ handler_fin_edit
  \/ handler_fin_send
  \/ task_turn_send
  \/ task_voting_send
  \/ \E t \in TaskIds : turn_timeout(t)
  \/ turn_timeout_skip
  \/ \E t \in TaskIds : vote_timer(t)
  \/ task_fin_edit
  \/ task_fin_send
  \/ handler_send_fails
  \/ task_send_fails

FailSpec == FailInit /\ [][FailNext]_vars

\* C16: a failing notification during the tally never leaves a tallied
\* session behind: once no coroutine is in flight for its chat, a session
\* that has been tallied is gone from the registry.
C16_TalliedSessionIsRemoved ==
  \A sid \in Registered :
    sessions[sid].tallies >= 1 => InFlight(ChatOf(sid))

\* C17: a failing notification during BeginSession or turn dispatch leaves no
\* partly begun session: a session that has just begun (PLAYING with its
\* snapshot taken, first turn of the first round, nothing in flight for its
\* chat) has its turn timer armed.
C17_BegunSessionHasTimer ==
  \A sid \in Registered :
    (/\ sessions[sid].state = "playing" /\ sessions[sid].settings_at_start.set
     /\ sessions[sid].current_turn = 0 /\ sessions[sid].current_round = 1
     /\ ~InFlight(ChatOf(sid)))
      => /\ sessions[sid].turn_task # None
         /\ tasks[sessions[sid].turn_task] # NoTask

\* ------------------------------------------------ settings edited mid-game
\* One session per run, two values of every tunable, and edits at any time.
SnapRounds == {MaxRounds, MaxRounds + 1}
SnapTurnLengths == {DefaultTurnLength, 60}
SnapVoteLengths == {DefaultVoteLength, 30}

SnapInit ==
  /\ games = <<>>
  /\ sessions = [sid \in SessionIds |-> NoSession]
  /\ tasks = [t \in TaskIds |-> NoTask]
  /\ h = Idle
  /\ settings \in [Chats -> [rounds : SnapRounds, max_players : {NumUsers},
                              turn_length : SnapTurnLengths,
                              vote_length : SnapVoteLengths]]
  /\ nextSid = 1
  /\ voteOps = 0
  /\ limits = [sessions |-> 1, presses |-> 0, old_ballots |-> FALSE]

SnapNext ==
  \/ \E c \in Chats, u \in Users, gid \in GameIds : game_cmd(c, u, gid)
  \/ \E u \in Users, gid \in GameIds : handle_join(u, gid)
  \/ \E c \in Chats, u \in Users : start_cmd(c, u)
  \/ start_cmd_resume
  \/ start_cmd_fail_resume
  \/ \E c \in Chats, u \in Users, text \in Texts : turn_message_handler(c, u, text)
  \/ turn_message_resume
  \/ \E c \in Chats, u \in Users : end_cmd(c, u)
  \/ \E c \in Chats, u \in Users : kill_cmd(c, u)
  \/ \E c \in Chats, u \in Users, n \in SnapRounds : customise_callback(c, u, "rounds", n)
  \/ \E c \in Chats, u \in Users, n \in SnapTurnLengths : customise_callback(c, u, "turn_length", n)
  \/ \E c \in Chats, u \in Users, n \in SnapVoteLengths : customise_callback(c, u, "vote_length", n)
  \/ handler_turn_send
  \/ handler_voting_send
  \/ \E t \in TaskIds : turn_timeout(t)
  \/ turn_timeout_skip
  \/ \E t \in TaskIds : vote_timer(t)
  \/ task_fin_edit
  \/ task_fin_send

SnapSpec == SnapInit /\ [][SnapNext]_vars

\* a timer created by this step: a sleeping task that was not there before
Armed(t) == tasks'[t] # NoTask /\ tasks'[t].pc = "sleep" /\ tasks'[t] # tasks[t]

\* C18: from BeginSession on, a session runs on the values snapshotted at
\* begin.  The snapshot taken by /start is the chat's settings of that
\* moment; it never changes afterwards, whatever is edited; every turn timer
\* and the vote timer armed for the session sleep for the snapshot's
\* turn_length and vote_length; and voting opens exactly when the round
\* counter passes the snapshot's rounds.
C18_SnapshotGoverns ==
  [][\A sid \in SessionIds :
       sessions[sid] # NoSession =>
         /\ (~sessions[sid].settings_at_start.set /\ sessions'[sid] # NoSession
              /\ sessions'[sid].settings_at_start.set)
               => sessions'[sid].settings_at_start = get_settings(ChatOf(sid))
         /\ sessions[sid].settings_at_start.set =>
              LET snap == sessions[sid].settings_at_start IN
              /\ sessions'[sid] # NoSession => sessions'[sid].settings_at_start = snap
              /\ (sessions[sid].state = "playing" /\ sessions'[sid] # NoSession
                   /\ sessions'[sid].state = "voting")
                    => sessions'[sid].current_round = snap.rounds + 1
              /\ \A t \in TaskIds :
                   (Armed(t) /\ tasks'[t].gsid = sid)
                     => tasks'[t].secs = IF tasks'[t].kind = "turn"
                                         THEN snap.turn_length ELSE snap.vote_length]_vars

\* C18 (case reached): every tunable was edited after the session began, and
\* the session has opened voting with its vote timer asleep.
C18_EditedWhileRunning ==
  \E sid \in Registered :
    LET snap == sessions[sid].settings_at_start
        now == settings[ChatOf(sid)] IN
    /\ sessions[sid].state = "voting"
    /\ snap.rounds # now.rounds /\ snap.turn_length # now.turn_length
    /\ snap.vote_length # now.vote_length
    /\ \E t \in TaskIds : /\ tasks[t] # NoTask /\ tasks[t].kind = "vote"
                           /\ tasks[t].pc = "sleep" /\ tasks[t].gsid = sid

\* C19: a configuration change is effective only for sessions created after
\* it.  A session that is registered and WAITING when a setting is edited
\* keeps its join capacity: the edit changes for no actor whether a join
\* into that session is accepted.
C19_EditLeavesWaitingSessionAlone ==
  [][\A sid \in Registered :
       (sessions[sid].state = "waiting" /\ settings' # settings)
         => \A u \in Users :
              join_allowed(sessions[sid], settings'[ChatOf(sid)], u)
                <=> join_allowed(sessions[sid], settings[ChatOf(sid)], u)]_vars

\* C20: when the word lookup has nothing at BeginSession the begin is rolled
\* back: the session it had already marked PLAYING (no snapshot taken yet)
\* is in the registry only while /start is still in its "Cannot start game"
\* reply, it has no turn timer, and once the handler is over it is gone.
C20_FailedBeginIsRolledBack ==
  \A sid \in Registered :
    (sessions[sid].state = "playing" /\ ~sessions[sid].settings_at_start.set)
      => /\ h.op = "start_cmd" /\ h.pc = "fail_reply"
         /\ sessions[sid].turn_task = None

\* C21: /end removes the chat's session from the registry, whatever its
\* state, exactly when the sender is the session's creator: for the creator
\* the command takes effect in every state, it removes that chat's entry and
\* nothing else, and it takes effect for nobody else.
C21_EndIffCreator ==
  /\ [](\A c \in Chats, u \in Users :
          (h = Idle /\ InGames(games, c) /\ sessions[GamesGet(games, c)].creator = u)
            => ENABLED end_cmd(c, u))
  /\ [][\A c \in Chats, u \in Users :
          end_cmd(c, u) => /\ sessions[GamesGet(games, c)].creator = u
                           /\ games' = GamesDel(games, c)]_vars

\* C21 (case reached): a session created by somebody who may not /kill is
\* out of the registry while VOTING and untallied, its vote timer still
\* asleep: its creator ended it.
C21_EndedWhileVoting ==
  /\ games = <<>> /\ h = Idle
  /\ \E sid \in SessionIds :
       /\ sessions[sid] # NoSession /\ sessions[sid].state = "voting"
       /\ sessions[sid].tallies = 0
       /\ ~IsAdmin(1, sessions[sid].creator)

\* C22: /kill removes the chat's session, in any state, whenever the sender
\* is privileged: a group administrator or owner, or a configured bot owner.
C22_KillByAnyPrivileged ==
  \A c \in Chats, u \in Users :
    (h = Idle /\ InGames(games, c) /\ is_admin_or_owner(c, u))
      => ENABLED kill_cmd(c, u)

\* C23: a session enters the registry only under a key that held none, and
\* only for a privileged creator; the sessions already registered are left
\* as they were (participants, state, timer); so the registry never holds
\* two sessions under one key.
C23_CreateRejected ==
  /\ [](\A i, j \in 1..Len(games) : games[i].chat = games[j].chat => i = j)
  /\ [][\A c \in Chats :
          (InGames(games', c) /\ GamesGet(games', c) # GamesGet(games, c))
            => /\ ~InGames(games, c)
               /\ is_admin_or_owner(c, sessions'[GamesGet(games', c)].creator)
               /\ \A sid \in Registered : sessions'[sid] = sessions[sid]]_vars

\* C23 (case reached): a chat holds a session with participants, another
\* session could still be created, and /game is refused to everybody.
C23_SecondCreateRefused ==
  \E c \in Chats :
    /\ h = Idle /\ InGames(games, c) /\ nextSid <= limits.sessions
    /\ Len(sessions[GamesGet(games, c)].players) >= 1
    /\ \A u \in Users, gid \in GameIds : ~ENABLED game_cmd(c, u, gid)

\* ------------------------------------------- a key re-used, timers in flight
\* Sessions created, begun and killed one after the other under one key, by
\* the administrator, with the turn order left as joined; the turns end by
\* timer expiry only.
ReuseInit ==
  /\ games = <<>>
  /\ sessions = [sid \in SessionIds |-> NoSession]
  /\ tasks = [t \in TaskIds |-> NoTask]
  /\ h = Idle
  /\ settings = [c \in Chats |-> [rounds |-> MaxRounds, max_players |-> NumUsers,
                                  turn_length |-> DefaultTurnLength,
                                  vote_length |-> DefaultVoteLength]]
  /\ nextSid = 1
  /\ voteOps = 0
  /\ limits = [sessions |-> MaxSessions + 1, presses |-> 0, old_ballots |-> FALSE]

ReuseNext ==
  \/ \E c \in Chats, gid \in GameIds : game_cmd(c, 1, gid)
  \/ \E u \in Users, gid \in GameIds : handle_join(u, gid)
  \/ \E c \in Chats :
       /\ start_cmd(c, 1)
       /\ h'.pc = "reply"
       /\ sessions'[GamesGet(games, c)].turn_order = sessions[GamesGet(games, c)].players
       /\ sessions'[GamesGet(games, c)].impostor = 1
  \/ start_cmd_resume
  \/ handler_turn_send
  \/ handler_voting_send
  \/ \E c \in Chats : kill_cmd(c, 1)
  \/ \E t \in TaskIds : turn_timeout(t)
  \/ turn_timeout_skip

ReuseSpec == ReuseInit /\ [][ReuseNext]_vars

\* C24: in every session that has begun (its snapshot is taken), the turn
\* index points into the turn order and the round is between 1 and the
\* round limit plus one.
C24_PointerInRange ==
  \A sid \in SessionIds :
    (sessions[sid] # NoSession /\ sessions[sid].settings_at_start.set)
      => /\ 0 <= sessions[sid].current_turn
         /\ sessions[sid].current_turn < Len(sessions[sid].turn_order)
         /\ 1 <= sessions[sid].current_round
         /\ sessions[sid].current_round <= sessions[sid].settings_at_start.rounds + 1

\* C25: in every session the keys of the vote record are participants, and
\* every recorded vote is unset or names a participant of that session.
C25_VotesNameParticipants ==
  \A sid \in SessionIds :
    sessions[sid] # NoSession =>
      /\ DOMAIN sessions[sid].votes \subseteq SeqSet(sessions[sid].players)
      /\ \A v \in DOMAIN sessions[sid].votes :
           \/ sessions[sid].votes[v] = None
           \/ sessions[sid].votes[v] \in SeqSet(sessions[sid].players)

\* ------------------------------------------------- every turn ends by a move
\* One session, one or two rounds; no timer expires and nobody ends the game.
MoveInit ==
  /\ games = <<>>
  /\ sessions = [sid \in SessionIds |-> NoSession]
  /\ tasks = [t \in TaskIds |-> NoTask]
  /\ h = Idle
  /\ settings \in [Chats -> [rounds : SnapRounds, max_players : {NumUsers},
                              turn_length : {DefaultTurnLength},
                              vote_length : {DefaultVoteLength}]]
  /\ nextSid = 1
  /\ voteOps = 0
  /\ limits = [sessions |-> 1, presses |-> 0, old_ballots |-> FALSE]

MoveNext ==
  \/ \E c \in Chats, u \in Users, gid \in GameIds : game_cmd(c, u, gid)
  \/ \E u \in Users, gid \in GameIds : handle_join(u, gid)
  \/ \E c \in Chats, u \in Users : start_cmd(c, u)
  \/ start_cmd_resume
  \/ start_cmd_fail_resume
  \/ \E c \in Chats, u \in Users, text \in Texts : turn_message_handler(c, u, text)
  \/ turn_message_resume
  \/ handler_turn_send
  \/ handler_voting_send

MoveSpec == MoveInit /\ [][MoveNext]_vars

\* the position after <<round, turn>> in a session of n turn-takers
After(s) ==
  IF s.current_turn + 1 < Len(s.turn_order)
  THEN <<s.current_round, s.current_turn + 1>>
  ELSE <<s.current_round + 1, 0>>

\* C26: when every turn ends by an accepted move, the turns announced are
\* exactly those of rounds 1..R, every participant once per round in the
\* frozen turn order: the first announcement is for position <<1, 0>>, every
\* accepted move moves the position to the next one, every new position of a
\* round <= R is announced to the turn-taker of that position, and the move
\* at <<R, n - 1>> opens voting and announces no turn.
C26_TurnsAnnouncedInOrder ==
  [][\A sid \in SessionIds :
       (/\ sessions[sid] # NoSession /\ sessions'[sid] # NoSession
        /\ sessions'[sid].settings_at_start.set)
         => LET s == sessions[sid]
                s2 == sessions'[sid]
                R == s2.settings_at_start.rounds
                Announces == h'.pc = "turn_send" /\ h.pc # "turn_send" /\ h'.game = sid
                Opens == s.state = "playing" /\ s2.state = "voting"
            IN /\ s.settings_at_start.set => s2.turn_order = s.turn_order
               /\ Announces =>
                    /\ s2.state = "playing" /\ s2.current_round <= R
                    /\ h'.cur = s2.turn_order[s2.current_turn + 1]
                    /\ Pointer(s2) = IF h.op = "start_cmd" THEN <<1, 0>> ELSE After(s)
               /\ Opens =>
                    /\ Pointer(s) = <<R, Len(s.turn_order) - 1>>
                    /\ Pointer(s2) = <<R + 1, 0>>
                    /\ h'.pc = "voting_send"
               /\ Pointer(s2) # Pointer(s) => Announces \/ Opens
               /\ (/\ s.state = "playing" /\ h.op = "turn_message_handler"
                   /\ h.pc = "reply" /\ h' # h)
                    => Pointer(s2) = After(s)]_vars

\* C26 (case reached): a session of NumUsers participants and two rounds
\* has gone through all its turns by moves and is VOTING.
C26_TwoRoundsPlayed ==
  \E sid \in Registered :
    /\ sessions[sid].state = "voting"
    /\ sessions[sid].settings_at_start.rounds = MaxRounds + 1
    /\ Len(sessions[sid].turn_order) = NumUsers
    /\ Pointer(sessions[sid]) = <<MaxRounds + 2, 0>>
    /\ h = Idle

\* ------------------------------------------------------ two chats, one voter
\* Two group chats, a session in each, created by the administrator with
\* distinct game ids; the same users may join both.  Turns end by moves.
PairChats == 1..(NumChats + 1)
PairGameIds == {1000, 1001}

PairInit ==
  /\ games = <<>>
  /\ sessions = [sid \in SessionIds |-> NoSession]
  /\ tasks = [t \in TaskIds |-> NoTask]
  /\ h = Idle
  /\ settings = [c \in PairChats |-> [rounds |-> MaxRounds, max_players |-> NumUsers,
                                      turn_length |-> DefaultTurnLength,
                                      vote_length |-> DefaultVoteLength]]
  /\ nextSid = 1
  /\ voteOps = 0
  /\ limits = [sessions |-> MaxSessions, presses |-> 1, old_ballots |-> FALSE]

PairNext ==
  \/ \E c \in PairChats, gid \in PairGameIds :
       /\ \A i \in 1..Len(games) : sessions[games[i].g].game_id # gid
       /\ game_cmd(c, 1, gid)
  \/ \E u \in Users, gid \in PairGameIds : handle_join(u, gid)
  \/ \E c \in PairChats :
       /\ start_cmd(c, 1)
       /\ h'.pc = "reply"
       /\ sessions'[GamesGet(games, c)].turn_order = sessions[GamesGet(games, c)].players
       /\ sessions'[GamesGet(games, c)].impostor = 1
  \/ start_cmd_resume
  \/ \E c \in PairChats, u \in Users : turn_message_handler(c, u, <<"w">>)
  \/ turn_message_resume
  \/ handler_turn_send
  \/ handler_voting_send
  \/ \E fu \in Users, v \in Users, tg \in Targets : vote_select(fu, v, tg)
  \/ \E fu \in Users, v \in Users : vote_done(fu, v)
  \/ vote_done_resume

PairSpec == PairInit /\ [][PairNext]_vars

\* C27: sessions are independent.  When an actor is a participant of two
\* registered sessions of which one is VOTING and the other is not, the
\* only ballot the actor holds is that of the VOTING session (ballots are
\* handed out for a VOTING session only), and a select or done of the actor
\* leaves the ballot state of the other session as it was.
C27_PressLeavesOtherSessionAlone ==
  [][\A a, b \in Registered :
       (/\ voteOps' # voteOps
        /\ a # b /\ sessions[b].state = "voting" /\ sessions[a].state # "voting")
         => Ballots(sessions'[a]) = Ballots(sessions[a])]_vars

\* ------------------------------------------------------- messages in a turn
\* One session whose turn-taker may also send over-long messages, with the
\* turn timers running.
LongInit ==
  /\ games = <<>>
  /\ sessions = [sid \in SessionIds |-> NoSession]
  /\ tasks = [t \in TaskIds |-> NoTask]
  /\ h = Idle
  /\ settings = [c \in Chats |-> [rounds |-> MaxRounds, max_players |-> NumUsers,
                                  turn_length |-> DefaultTurnLength,
                                  vote_length |-> DefaultVoteLength]]
  /\ nextSid = 1
  /\ voteOps = 0
  /\ limits = [sessions |-> 1, presses |-> 0, old_ballots |-> FALSE]

LongNext ==
  \/ \E c \in Chats, u \in Users, gid \in GameIds : game_cmd(c, u, gid)
  \/ \E u \in Users, gid \in GameIds : handle_join(u, gid)
  \/ \E c \in Chats, u \in Users : start_cmd(c, u)
  \/ start_cmd_resume
  \/ start_cmd_fail_resume
  \/ \E c \in Chats, u \in Users, text \in Texts : turn_message_handler(c, u, text)
  \/ turn_message_resume
  \/ \E c \in Chats, u \in Users, text \in Texts : turn_message_long(c, u, text)
  \/ turn_message_long_resume
  \/ handler_turn_send
  \/ handler_voting_send
  \/ \E t \in TaskIds : turn_timeout(t)
  \/ turn_timeout_skip

LongSpec == LongInit /\ [][LongNext]_vars

\* the handler of an over-long message of the turn-taker is running
Rejecting == h.op = "turn_message_handler" /\ h.pc = "long_send"

\* C28: a message from somebody who is not the current turn-taker, or of
\* more than 4 words, is no move.  It is never accepted; a message of
\* another sender starts nothing at all; the handler of an over-long message
\* leaves every session (turn index, round, state, stored timer) and every
\* timer as they were, when it starts and when it returns; and while it
\* runs the pending timer stays armed for the turn-taker.
C28_RejectedMessageIsNoMove ==
  /\ [](\A c \in Chats, u \in Users, text \in Texts :
          LET g == GamesGet(games, c) IN
          (g # None /\ sessions[g].state = "playing")
            => /\ (sessions[g].turn_order[sessions[g].current_turn + 1] # u
                    \/ word_count(text) > MaxWords)
                   => ~ENABLED turn_message_handler(c, u, text)
               /\ sessions[g].turn_order[sessions[g].current_turn + 1] # u
                   => ~ENABLED turn_message_long(c, u, text))
  /\ [][(Rejecting \/ Rejecting') /\ h' # h
          => sessions' = sessions /\ tasks' = tasks /\ games' = games]_vars

\* C28 (case reached): while the handler of an over-long message of the
\* turn-taker runs, the timer armed for that turn has expired and is at its
\* skip notice.
C28_TimerExpiresAfterRejection ==
  /\ Rejecting
  /\ \E t \in TaskIds :
       /\ tasks[t] # NoTask /\ tasks[t].kind = "turn" /\ tasks[t].pc = "skip_send"
       /\ tasks[t].user = h.user /\ tasks[t].valid

\* C29: when a session enters VOTING every tentative selection and every
\* recorded vote of it is unset and nobody has finalized.
C29_BallotsUnsetAtOpening ==
  [][\A sid \in SessionIds :
       (/\ sessions[sid] # NoSession /\ sessions'[sid] # NoSession
        /\ sessions[sid].state # "voting" /\ sessions'[sid].state = "voting")
         => /\ \A v \in DOMAIN sessions'[sid].vote_selections :
                 sessions'[sid].vote_selections[v] = None
            /\ \A v \in DOMAIN sessions'[sid].votes : sessions'[sid].votes[v] = None
            /\ sessions'[sid].done_votes = {}]_vars

\* a finalize_votes that was suspended in its outcome announcement resumed
FinalizeResumed(c) ==
  \/ h.pc = "fin_send" /\ h.chat = c /\ h' # h
  \/ \E t \in TaskIds : /\ tasks[t] # NoTask /\ tasks[t].pc = "fin_send"
                         /\ tasks[t].chat = c /\ tasks'[t] # tasks[t]

\* C30: the removal at the end of a tally removes only a session that was
\* tallied, never a session created under the key in the meantime.
C30_TallyRemovesOnlyTallied ==
  [][\A c \in Chats :
       (FinalizeResumed(c) /\ InGames(games, c) /\ ~InGames(games', c))
         => sessions[GamesGet(games, c)].tallies >= 1]_vars

\* ------------------------------------------------- game ids drawn at random
\* Two group chats; every /game draws its id from PairGameIds, whatever ids
\* the registered sessions hold.
TokenNext ==
  \/ \E c \in PairChats, u \in Users, gid \in PairGameIds : game_cmd(c, u, gid)
  \/ \E u \in Users, gid \in PairGameIds : handle_join(u, gid)
  \/ \E c \in PairChats, u \in Users : start_cmd(c, u)
  \/ start_cmd_resume
  \/ start_cmd_fail_resume
  \/ handler_turn_send
  \/ \E c \in PairChats, u \in Users : end_cmd(c, u)

TokenSpec == PairInit /\ [][TokenNext]_vars

\* C31: game ids are unique among the registered sessions, so a join that
\* carries an id acts on the one session the id was issued for: whenever a
\* join adds a participant to a session, no other registered session holds
\* the same game id.
C31_JoinReachesItsSession ==
  [][\A a \in Registered :
       (sessions'[a] # NoSession
        /\ Len(sessions'[a].players) > Len(sessions[a].players))
         => \A b \in Registered :
              b # a => sessions[b].game_id # sessions[a].game_id]_vars

====
